---------------------------- MODULE Spec2Model ----------------------------
(***************************************************************************)
(* A model of s3newbench's ObjectAnalyzer (src/src/main.rs): one call of   *)
(* ObjectAnalyzer::run, stepped at every call it awaits on the storage     *)
(* backend (S3) and the metrics backend (Elasticsearch).  The backends are *)
(* the environment: each call's outcome is chosen nondeterministically.    *)
(*                                                                         *)
(* Rust's `?` is modelled by the After... operators: an Err makes run      *)
(* return at once (pc = "failed"), an Ok goes on to the next statement.    *)
(*                                                                         *)
(* Uuid::new_v4() is modelled as a fresh number (1, 2, ...): two version-4 *)
(* uuids of one run never collide, and none equals the uuid of an object   *)
(* that was in the bucket before the run (uuid 0).                         *)
(***************************************************************************)
EXTENDS Integers, Sequences, FiniteSets, TLC

\* Largest --num-objects the model draws.
MaxObjects == 3

\* Largest elapsed time of a put_object, in ms, the model draws.
MaxDuration == 1

\* Largest --max-latency, in ms, the model draws.
MaxLatency == 1

\* Option::None of --prefix and --cleanup.
None == "None"

\* The values of --workload, --cleanup and --prefix the model draws.
Workloads == {"write", "WRITE", "read", "delete"}
Cleanups  == {None, "yes", "YES", "no"}
Prefixes  == {None, "pfx"}

\* The values of --object-size the model draws, as sequences of characters:
\* "1kb", " 2", "1TB", "xMB" and "0".
SizeStrings == {<<"1", "k", "b">>, <<" ", "2">>, <<"1", "T", "B">>,
                <<"x", "M", "B">>, <<"0">>}

\* The values of --max-latency the model draws: Option<f64> as a sequence
\* of at most one element, <<>> for Option::None.
Latencies == {<<>>} \cup {<<max>> : max \in 0..MaxLatency}

\* The elapsed times of a put_object the model draws.
Durations == 0..MaxDuration

\* Keys of objects some other party may have left in the bucket.
OldKeys == {[prefix |-> None, uuid |-> 0], [prefix |-> "pfx", uuid |-> 0]}

\* The key field of a logged call that carries no key.
NoKey == [prefix |-> None, uuid |-> -1]

\* Outcomes of a metrics-backend index call: accepted, refused now but
\* accepted on a later attempt, refused on every attempt.
IndexResults == {"ok", "transient", "permanent"}

VARIABLES
    args,          \* Args: workload, cleanup, num_objects, prefix,
                   \*       object_size, max_latency
    cleanup_list,  \* ObjectAnalyzer.cleanup_list
    pc,            \* position in ObjectAnalyzer::run
    done,          \* iterations of `for _ in 0..num_objects` completed
    object_name,   \* run's local object_name
    data,          \* run's local data, as its length data.len()
    duration_ms,   \* run's local duration_ms
    next_key,      \* index into cleanup_list of the cleanup loop
    uuids,         \* number of Uuid::new_v4() calls so far
    bucket,        \* storage backend: [exists, objects]
    index,         \* metrics backend: documents of s3-perf-index
    calls          \* history: every backend call issued, with its outcome

vars == <<args, cleanup_list, pc, done, object_name, data, duration_ms,
          next_key, uuids, bucket, index, calls>>

(***************************************************************************)
(* Pure parts of the code.                                                 *)
(***************************************************************************)

\* str::to_lowercase on the strings the model draws.
to_lowercase(s) ==
    CASE s = "WRITE" -> "write"
      [] s = "YES"   -> "yes"
      [] OTHER       -> s

\* self.args.workload.to_lowercase() == "write"
IsWrite(a) == to_lowercase(a.workload) = "write"

\* self.args.workload.to_lowercase() == "read"
IsRead(a) == to_lowercase(a.workload) = "read"

\* check_bucket_existence: head_bucket().send().await.is_ok()
check_bucket_existence(res) == res = "ok"

\* Mutant of NeedsCreate: the workload is not looked at.
NeedsCreateAnyWorkload(exists, a) == ~exists

\* run: `if !exists && self.args.workload.to_lowercase() == "write"`
NeedsCreate(exists, a) == ~exists /\ IsWrite(a)

\* Mutant of AfterCreateBucket: the Result of create_bucket is dropped.
AfterCreateBucketIgnored(ok) == "prepare"

\* run: `self.create_bucket().await?;`
AfterCreateBucket(ok) == IF ok THEN "prepare" ELSE "failed"

\* Mutant of AfterPrepare: the write loop is entered whatever the workload.
AfterPrepareNoModeCheck(ok, a) == IF ~ok THEN "failed" ELSE "write_loop"

\* run: the branch on the workload after `hostname::get()?`
AfterPrepare(ok, a) ==
    IF ~ok THEN "failed"
    ELSE IF IsWrite(a) THEN "write_loop"
    ELSE IF IsRead(a) THEN "read"
    ELSE "cleanup"

\* generate_object_name: "<prefix>/<uuid>", or "<uuid>" without a prefix.
generate_object_name(a, uuid) == [prefix |-> a.prefix, uuid |-> uuid]

\* Mutant of put_object: the key is pushed whatever send() returned.
put_object_always_push(list, name, ok) == Append(list, name)

\* Mutant of put_object: the key is not pushed by put_object (the push is
\* left to a later step of the iteration).
put_object_never_push(list, name, ok) == list

\* put_object: `.send().await?; self.cleanup_list.push(object_name)`
put_object(list, name, ok) == IF ok THEN Append(list, name) ELSE list

\* run: `self.put_object(&object_name, &data).await?;`
AfterPutObject(ok) == IF ok THEN "emit" ELSE "failed"

\* run: `self.write_elastic_data(doc).await?;` closing one iteration
AfterWriteElasticData(ok) == IF ok THEN "write_loop" ELSE "failed"

\* Mutant of CleanupRequested: any --cleanup value counts as yes.
CleanupRequestedAnyValue(a) == a.cleanup # None

\* run: `if let Some(cleanup) = ... { if cleanup.to_lowercase() == "yes"`
CleanupRequested(a) == a.cleanup # None /\ to_lowercase(a.cleanup) = "yes"

\* Mutant of AfterDeleteObject: the cleanup sits inside the write loop, which
\* is resumed after a delete.
AfterDeleteObjectResumesLoop(ok) == IF ok THEN "write_loop" ELSE "failed"

\* run: `self.s3.delete_object()....send().await?;`
AfterDeleteObject(ok) == IF ok THEN "cleanup" ELSE "failed"

(***************************************************************************)
(* create_bin_data and its parse_size.  A string is a sequence of          *)
(* characters; a failed parse::<usize>() is ParseError.  The sizes drawn   *)
(* stay far below usize::MAX, so the multiplications do not overflow.      *)
(***************************************************************************)
ParseError == -1

Digits == <<"0", "1", "2", "3", "4", "5", "6", "7", "8", "9">>

IsDigit(c) == \E d \in 1..Len(Digits) : Digits[d] = c

DigitValue(c) == (CHOOSE d \in 1..Len(Digits) : Digits[d] = c) - 1

\* str::trim on the white space the model draws.
RECURSIVE trim(_)
trim(s) ==
    IF s = <<>> THEN s
    ELSE IF Head(s) = " " THEN trim(Tail(s))
    ELSE IF s[Len(s)] = " " THEN trim(SubSeq(s, 1, Len(s) - 1))
    ELSE s

\* char::to_uppercase on the letters the model draws.
to_uppercase_char(c) ==
    CASE c = "k" -> "K"
      [] c = "m" -> "M"
      [] c = "g" -> "G"
      [] c = "t" -> "T"
      [] c = "b" -> "B"
      [] c = "x" -> "X"
      [] OTHER   -> c

\* str::to_uppercase
to_uppercase(s) == [i \in 1..Len(s) |-> to_uppercase_char(s[i])]

\* str::ends_with
ends_with(s, suffix) ==
    /\ Len(s) >= Len(suffix)
    /\ SubSeq(s, Len(s) - Len(suffix) + 1, Len(s)) = suffix

RECURSIVE DecimalValue(_)
DecimalValue(s) ==
    IF s = <<>> THEN 0
    ELSE 10 * DecimalValue(SubSeq(s, 1, Len(s) - 1)) + DigitValue(s[Len(s)])

\* str::parse::<usize>: decimal digits after an optional "+".
parse_usize(s) ==
    LET digits == IF s # <<>> /\ Head(s) = "+" THEN Tail(s) ELSE s IN
    IF digits # <<>> /\ \A i \in 1..Len(digits) : IsDigit(digits[i])
    THEN DecimalValue(digits)
    ELSE ParseError

\* Result::unwrap_or
unwrap_or(r, default) == IF r = ParseError THEN default ELSE r

\* create_bin_data's `size_str[..size_str.len()-2]`
Magnitude(s) == SubSeq(s, 1, Len(s) - 2)

\* create_bin_data's fn parse_size
parse_size(size_str) ==
    LET str == to_uppercase(trim(size_str)) IN
    IF ends_with(str, <<"K", "B">>)
    THEN unwrap_or(parse_usize(Magnitude(str)), 0) * 1024
    ELSE IF ends_with(str, <<"M", "B">>)
    THEN unwrap_or(parse_usize(Magnitude(str)), 0) * 1024 * 1024
    ELSE IF ends_with(str, <<"G", "B">>)
    THEN unwrap_or(parse_usize(Magnitude(str)), 0) * 1024 * 1024 * 1024
    ELSE unwrap_or(parse_usize(str), 0)

\* create_bin_data: `vec![b'a'; size]`, as its length.
create_bin_data(a) == parse_size(a.object_size)

\* Mutant of evaluate_latency: a duration equal to the maximum is flagged.
evaluate_latency_or_equal(a, duration) ==
    IF a.max_latency # <<>> THEN duration >= a.max_latency[1] ELSE FALSE

\* evaluate_latency
evaluate_latency(a, duration) ==
    IF a.max_latency # <<>> THEN duration > a.max_latency[1] ELSE FALSE

(***************************************************************************)
(* calculate_throughput: (1000.0 / latency_ms) * size_bytes / 1_000_000.0  *)
(* in f64.  An f64 is the fraction num/den, and den = 0 stands for what    *)
(* IEEE 754 gives for a division by 0.0: infinity (num > 0, from           *)
(* 1000.0 / 0.0 = inf) or NaN (num = 0, from inf * 0.0).                   *)
(***************************************************************************)
calculate_throughput(latency_ms, size_bytes) ==
    [num |-> 1000 * size_bytes, den |-> latency_ms * 1000000]

\* serde_json's Value::from(f64): a number, or null for an infinity or a
\* NaN; <<>> is null.
JsonF64(x) == IF x.den = 0 THEN <<>> ELSE <<x>>

\* serde_json::json!({...}): the fields of a document the model keeps.
Document(a, name, duration, size_bytes) ==
    [latency          |-> duration,
     latency_exceeded |-> evaluate_latency(a, duration),
     workload         |-> a.workload,
     size             |-> a.object_size,
     size_in_bytes    |-> size_bytes,
     throughput       |-> JsonF64(calculate_throughput(duration, size_bytes)),
     object_name      |-> name]

Call(op, key, res) == [op |-> op, key |-> key, res |-> res]

(***************************************************************************)
(* The state after ObjectAnalyzer::new, before run.                        *)
(***************************************************************************)
Init ==
    /\ args \in [workload : Workloads, cleanup : Cleanups,
                 num_objects : 0..MaxObjects, prefix : Prefixes,
                 object_size : {<<"1", "k", "b">>}, max_latency : {<<>>}]
            \cup [workload : {"write"}, cleanup : {None},
                  num_objects : 0..MaxObjects, prefix : {None},
                  object_size : SizeStrings, max_latency : Latencies]
    /\ data = 0
    /\ duration_ms = 0
    /\ cleanup_list = <<>>
    /\ pc = "check_bucket"
    /\ done = 0
    /\ object_name = NoKey
    /\ next_key = 1
    /\ uuids = 0
    /\ bucket \in {[exists |-> FALSE, objects |-> {}]}
                  \cup [exists : {TRUE}, objects : SUBSET OldKeys]
    /\ index = <<>>
    /\ calls = <<>>

(***************************************************************************)
(* run, line 182-185: the existence check and the branch on its result.    *)
(* head_bucket answers Ok only for a bucket that exists; it may fail for   *)
(* one that exists (no permission, no connection).                         *)
(***************************************************************************)
CheckBucketExistence ==
    /\ pc = "check_bucket"
    /\ \E res \in {"ok", "error"} :
        /\ res = "ok" => bucket.exists
        /\ calls' = Append(calls, Call("head_bucket", NoKey, res))
        /\ pc' = IF NeedsCreate(check_bucket_existence(res), args)
                 THEN "create_bucket" ELSE "prepare"
    /\ UNCHANGED <<args, cleanup_list, done, object_name, data, duration_ms,
                   next_key, uuids, bucket, index>>

\* run, line 184, and create_bucket.
CreateBucket ==
    /\ pc = "create_bucket"
    /\ \E ok \in BOOLEAN :
        /\ calls' = Append(calls, Call("create_bucket", NoKey,
                                       IF ok THEN "ok" ELSE "error"))
        /\ bucket' = IF ok THEN [bucket EXCEPT !.exists = TRUE] ELSE bucket
        /\ pc' = AfterCreateBucket(ok)
    /\ UNCHANGED <<args, cleanup_list, done, object_name, data, duration_ms,
                   next_key, uuids, index>>

\* run, line 187-191: the payload, `hostname::get()?`, the uuid of `source`,
\* and the branch on the workload.
Prepare ==
    /\ pc = "prepare"
    /\ \E ok \in BOOLEAN :
        /\ uuids' = IF ok THEN uuids + 1 ELSE uuids
        /\ pc' = AfterPrepare(ok, args)
    /\ data' = create_bin_data(args)
    /\ UNCHANGED <<args, cleanup_list, done, object_name, duration_ms,
                   next_key, bucket, index, calls>>

(***************************************************************************)
(* run, line 192-196: one iteration's generate_object_name and put_object. *)
(* A put the client sees fail may or may not have stored the object; a put *)
(* needs the bucket.  Line 197-198: the elapsed time of a put that         *)
(* returned Ok, which the clock may give as 0.                             *)
(***************************************************************************)
PutObject ==
    /\ pc = "write_loop"
    /\ done < args.num_objects
    /\ \E ok \in BOOLEAN, stored \in BOOLEAN, elapsed \in Durations :
        LET name == generate_object_name(args, uuids + 1) IN
        /\ ok => (stored /\ bucket.exists)
        /\ stored => bucket.exists
        /\ uuids' = uuids + 1
        /\ object_name' = name
        /\ calls' = Append(calls, Call("put_object", name,
                                       IF ok THEN "ok" ELSE "error"))
        /\ bucket' = IF stored
                     THEN [bucket EXCEPT !.objects = @ \cup {name}]
                     ELSE bucket
        /\ cleanup_list' = put_object(cleanup_list, name, ok)
        /\ duration_ms' = IF ok THEN elapsed ELSE duration_ms
        /\ pc' = AfterPutObject(ok)
    /\ UNCHANGED <<args, done, data, next_key, index>>

\* run, line 200-217: the document of the iteration and write_elastic_data.
WriteElasticData ==
    /\ pc = "emit"
    /\ \E res \in IndexResults :
        /\ calls' = Append(calls, Call("index", object_name, res))
        /\ index' = IF res = "ok"
                    THEN Append(index, Document(args, object_name,
                                                duration_ms, data))
                    ELSE index
        /\ done' = IF res = "ok" THEN done + 1 ELSE done
        /\ pc' = AfterWriteElasticData(res = "ok")
    /\ UNCHANGED <<args, cleanup_list, object_name, data, duration_ms,
                   next_key, uuids, bucket>>

\* run, line 192 and 218: the range 0..num_objects is exhausted.
ExitWriteLoop ==
    /\ pc = "write_loop"
    /\ done = args.num_objects
    /\ pc' = "cleanup"
    /\ UNCHANGED <<args, cleanup_list, done, object_name, data, duration_ms,
                   next_key, uuids, bucket, index, calls>>

\* run, line 219-223: the read workload only prints a warning.
ReadWorkload ==
    /\ pc = "read"
    /\ pc' = "cleanup"
    /\ UNCHANGED <<args, cleanup_list, done, object_name, data, duration_ms,
                   next_key, uuids, bucket, index, calls>>

(***************************************************************************)
(* run, line 225-235: one delete_object of `for key in &self.cleanup_list`.*)
(* A delete the client sees fail may or may not have removed the object.   *)
(***************************************************************************)
DeleteObject ==
    /\ pc = "cleanup"
    /\ CleanupRequested(args)
    /\ next_key <= Len(cleanup_list)
    /\ \E ok \in BOOLEAN, removed \in BOOLEAN :
        LET key == cleanup_list[next_key] IN
        /\ ok => removed
        /\ calls' = Append(calls, Call("delete_object", key,
                                       IF ok THEN "ok" ELSE "error"))
        /\ bucket' = IF removed
                     THEN [bucket EXCEPT !.objects = @ \ {key}]
                     ELSE bucket
        /\ next_key' = IF ok THEN next_key + 1 ELSE next_key
        /\ pc' = AfterDeleteObject(ok)
    /\ UNCHANGED <<args, cleanup_list, done, object_name, data, duration_ms,
                   uuids, index>>

\* run, line 237: `Ok(())`, with cleanup not requested or its loop finished.
ReturnOk ==
    /\ pc = "cleanup"
    /\ ~CleanupRequested(args) \/ next_key > Len(cleanup_list)
    /\ pc' = "done"
    /\ UNCHANGED <<args, cleanup_list, done, object_name, data, duration_ms,
                   next_key, uuids, bucket, index, calls>>

Next ==
    \/ CheckBucketExistence
    \/ CreateBucket
    \/ Prepare
    \/ PutObject
    \/ WriteElasticData
    \/ ExitWriteLoop
    \/ ReadWorkload
    \/ DeleteObject
    \/ ReturnOk

Spec == Init /\ [][Next]_vars

(***************************************************************************)
(* Vocabulary of the properties, read off the history of backend calls.    *)
(* It does not use the operators that model the code's conditions.         *)
(***************************************************************************)
CallsOf(op) == SelectSeq(calls, LAMBDA c : c.op = op)

Failed(s) == SelectSeq(s, LAMBDA c : c.res # "ok")

Succeeded(s) == SelectSeq(s, LAMBDA c : c.res = "ok")

KeysOf(s) == [i \in 1..Len(s) |-> s[i].key]

Range(s) == {s[i] : i \in 1..Len(s)}

\* run has returned, with Ok(()) or with an Err.
Returned == pc \in {"done", "failed"}

\* The values of --workload and --cleanup that mean Write and yes.
WriteValues == {"write", "WRITE"}
YesValues == {"yes", "YES"}

\* Documents of the index recorded for the object `key`.
DocumentsFor(key) == {i \in 1..Len(index) : index[i].object_name = key}

(***************************************************************************)
(* C1: in a write run of num_objects = N, a put_object failure does not    *)
(* abort the run: once the run has returned, all N generation tasks have   *)
(* been attempted, whichever puts failed.                                  *)
(* The code returns at the first failed put (`put_object(..).await?`).     *)
(***************************************************************************)
C1_PutFailureDoesNotAbort ==
    (Returned /\ args.workload \in WriteValues
              /\ Failed(CallsOf("put_object")) # <<>>)
        => Len(CallsOf("put_object")) = args.num_objects

(***************************************************************************)
(* C2: when run ends in failure after at least one object was written and  *)
(* cleanup is requested, a delete has been attempted for every key in the  *)
(* ledger before run returns.                                              *)
(* The code returns the Err at once and issues no delete.                  *)
(***************************************************************************)
C2_FailedRunStillCleansUp ==
    (pc = "failed" /\ cleanup_list # <<>> /\ args.cleanup \in YesValues)
        => \A k \in Range(cleanup_list) :
               k \in Range(KeysOf(CallsOf("delete_object")))

(***************************************************************************)
(* C3: writing N objects with cleanup enabled leaves none of those keys in *)
(* the bucket once run has returned.  Stated for the runs in which all N   *)
(* puts succeeded and no delete that was issued failed.                    *)
(* The code returns at a failed emission with the keys still in the        *)
(* bucket.                                                                 *)
(***************************************************************************)
C3_NoWrittenKeyLeftAfterCleanup ==
    (Returned /\ args.workload \in WriteValues /\ args.cleanup \in YesValues
              /\ Len(Succeeded(CallsOf("put_object"))) = args.num_objects
              /\ Failed(CallsOf("delete_object")) = <<>>)
        => bucket.objects \cap Range(KeysOf(CallsOf("put_object"))) = {}

(***************************************************************************)
(* C4: the cleanup ledger holds exactly the keys whose put_object returned *)
(* success, in order: its length is the number of successful puts, not of  *)
(* attempted ones, and the key of a failed put is never in it.             *)
(***************************************************************************)
C4_LedgerIsSuccessfulPuts ==
    /\ cleanup_list = KeysOf(Succeeded(CallsOf("put_object")))
    /\ \A k \in Range(KeysOf(Failed(CallsOf("put_object")))) :
           k \notin Range(cleanup_list)

\* C4's case: a put failed after another had succeeded, so the ledger is
\* shorter than the number of attempts.
C4_Witness ==
    /\ Failed(CallsOf("put_object")) # <<>>
    /\ Len(cleanup_list) >= 1
    /\ Len(cleanup_list) < Len(CallsOf("put_object"))

(***************************************************************************)
(* C5: a delete_object failure on one key neither makes the run fail nor   *)
(* prevents the delete attempt of any remaining key of the ledger.         *)
(* The code returns at the first failed delete (`.send().await?`).         *)
(***************************************************************************)
C5_DeleteFailureIsCollected ==
    (Returned /\ Failed(CallsOf("delete_object")) # <<>>)
        => /\ pc = "done"
           /\ \A k \in Range(cleanup_list) :
                  k \in Range(KeysOf(CallsOf("delete_object")))

(***************************************************************************)
(* C6: a delete_object is issued only when cleanup was requested, and only *)
(* for a key whose put_object succeeded in this run; never for a key that  *)
(* was in the bucket before the run.                                       *)
(***************************************************************************)
C6_DeletesOnlyOwnKeysOnRequest ==
    \A i \in 1..Len(calls) :
        calls[i].op = "delete_object" =>
            /\ args.cleanup \in YesValues
            /\ \E j \in 1..(i - 1) :
                   /\ calls[j].op = "put_object"
                   /\ calls[j].res = "ok"
                   /\ calls[j].key = calls[i].key
            /\ calls[i].key \notin OldKeys

\* C6's case: a delete was issued while an older object of the same prefix
\* is in the bucket.
C6_Witness ==
    /\ CallsOf("delete_object") # <<>>
    /\ \E k \in bucket.objects : k \in OldKeys /\ k.prefix = args.prefix

(***************************************************************************)
(* C7: create_bucket is invoked if and only if the existence check did not *)
(* report the bucket present (a failed check counts as absent) and the     *)
(* workload is write; it is invoked at most once.                          *)
(***************************************************************************)
C7_CreateIffAbsentAndWrite ==
    /\ Len(CallsOf("create_bucket")) <= 1
    /\ (CallsOf("create_bucket") # <<>> \/ pc = "create_bucket")
         <=> /\ calls # <<>>
             /\ calls[1].op = "head_bucket"
             /\ calls[1].res # "ok"
             /\ args.workload \in WriteValues

\* C7's case: the bucket exists, its check failed, and create_bucket was
\* invoked.
C7_Witness ==
    /\ CallsOf("create_bucket") # <<>>
    /\ calls[1].res = "error"
    /\ bucket.exists
    /\ Failed(CallsOf("create_bucket")) # <<>>

(***************************************************************************)
(* C8: a create_bucket failure is fatal: run ends in failure, no put, get  *)
(* or delete was attempted and no metrics document was emitted.            *)
(***************************************************************************)
C8_CreateFailureIsFatal ==
    Failed(CallsOf("create_bucket")) # <<>>
        => /\ pc = "failed"
           /\ \A i \in 1..Len(calls) :
                  calls[i].op \in {"head_bucket", "create_bucket"}
           /\ index = <<>>

\* C8's case: create_bucket failed for a run asked to write objects.
C8_Witness ==
    /\ Failed(CallsOf("create_bucket")) # <<>>
    /\ args.num_objects > 0
    /\ pc = "failed"

(***************************************************************************)
(* C9: once run has returned, an operation whose document was refused      *)
(* transiently (a later attempt would be accepted) has exactly one         *)
(* document recorded, and one refused on every attempt has none.           *)
(* The code makes one attempt and returns its Err; it keeps no drop-count. *)
(***************************************************************************)
C9_TransientFailureIsRetried ==
    Returned =>
        \A c \in Range(CallsOf("index")) :
            /\ c.res = "transient" => Cardinality(DocumentsFor(c.key)) = 1
            /\ c.res = "permanent" => Cardinality(DocumentsFor(c.key)) = 0

(***************************************************************************)
(* C10: a failed emission of one operation's document is not fatal: once   *)
(* run has returned, all N write tasks have been attempted and the cleanup *)
(* phase was reached.                                                      *)
(* The code returns at the failed emission (`write_elastic_data(..)?`).    *)
(***************************************************************************)
C10_TelemetryFailureIsNotFatal ==
    (Returned /\ Failed(CallsOf("index")) # <<>>)
        => /\ Len(CallsOf("put_object")) = args.num_objects
           /\ (pc = "done" \/ CallsOf("delete_object") # <<>>)


(***************************************************************************)
(* C12: latency_exceeded of a measurement is true if and only if a maximum *)
(* latency is configured and the duration is strictly greater than it.     *)
(***************************************************************************)
C12_ExceededIffOverThreshold ==
    \A i \in 1..Len(index) :
        index[i].latency_exceeded
            <=> /\ args.max_latency # <<>>
                /\ index[i].latency > args.max_latency[1]

\* C12's case: with a maximum configured, one document of a duration equal
\* to it, not flagged, and one of a greater duration, flagged.
C12_Witness ==
    /\ args.max_latency # <<>>
    /\ \E i \in 1..Len(index) :
           /\ index[i].latency = args.max_latency[1]
           /\ ~index[i].latency_exceeded
    /\ \E i \in 1..Len(index) : index[i].latency_exceeded

(***************************************************************************)
(* C13: the throughput placed in a metrics document is always a finite     *)
(* number, and for a duration > 0 it is (1000 / duration) * size / 1e6.    *)
(* The code divides by a duration of 0 without clamping it: the result is  *)
(* an infinity or a NaN, which json! writes as null.                       *)
(***************************************************************************)
C13_ThroughputIsFinite ==
    \A i \in 1..Len(index) :
        /\ index[i].throughput # <<>>
        /\ index[i].latency > 0 =>
               index[i].throughput =
                   <<[num |-> 1000 * index[i].size_in_bytes,
                      den |-> 1000000 * index[i].latency]>>

\* The values of --object-size drawn that the specification rejects: an
\* unknown suffix ("1TB"), a non-numeric magnitude ("xMB"), 0 bytes ("0").
InvalidSizes == {<<"1", "T", "B">>, <<"x", "M", "B">>, <<"0">>}

\* The values of --workload that mean Read.
ReadValues == {"read", "READ"}

(***************************************************************************)
(* C14: with an invalid configuration (an invalid object size, or a        *)
(* workload that is neither write nor read) no backend call is made, not   *)
(* even the bucket-existence check, and run does not return Ok.            *)
(* The code takes an unparsable size as 0 (`unwrap_or(0)`) and validates   *)
(* nothing before head_bucket.                                             *)
(***************************************************************************)
C14_InvalidConfigHaltsBeforeProvisioning ==
    (args.object_size \in InvalidSizes
        \/ args.workload \notin (WriteValues \cup ReadValues))
        => calls = <<>> /\ pc # "done"

\* The objects of the bucket under --prefix (all of them without one).
ObjectsUnderPrefix ==
    {k \in bucket.objects : args.prefix = None \/ k.prefix = args.prefix}

(***************************************************************************)
(* C15: a read run over a prefix of K >= 1 objects that is asked for       *)
(* N > K reads and returns Ok has issued exactly N get_object calls, each  *)
(* for one of the K keys.                                                  *)
(* The code's read workload is not implemented: it issues no get_object.   *)
(***************************************************************************)
C15_ReadYieldsNKeys ==
    (pc = "done" /\ args.workload \in ReadValues
                 /\ Cardinality(ObjectsUnderPrefix) >= 1
                 /\ args.num_objects > Cardinality(ObjectsUnderPrefix))
        => /\ Len(CallsOf("get_object")) = args.num_objects
           /\ Range(KeysOf(CallsOf("get_object"))) \subseteq ObjectsUnderPrefix

PhaseRank(p) ==
    CASE p \in {"check_bucket", "create_bucket"}         -> 1
      [] p \in {"prepare", "write_loop", "emit", "read"} -> 2
      [] p = "cleanup"                                   -> 3
      [] OTHER                                           -> 4

(***************************************************************************)
(* C17: a run moves through its phases only forwards (Provisioning,        *)
(* Running, CleaningUp, Done) and never leaves Failed; no put or get is    *)
(* issued before provisioning has finished or after a delete, and no       *)
(* delete is issued while the write loop is still at work.                 *)
(***************************************************************************)
C17_PhaseOrder ==
    /\ [][/\ pc = "failed" => pc' = "failed"
          /\ pc' # "failed" => PhaseRank(pc') >= PhaseRank(pc)]_vars
    /\ [](/\ \A i \in 1..Len(calls) :
                calls[i].op \in {"put_object", "get_object"} =>
                    /\ calls[1].op = "head_bucket"
                    /\ \A j \in 1..(i - 1) :
                           /\ calls[j].op # "delete_object"
                           /\ calls[j].op = "create_bucket"
                                  => calls[j].res = "ok"
          /\ CallsOf("delete_object") # <<>>
                => pc \in {"cleanup", "done", "failed"})

\* C17's case: a run that created the bucket, wrote, deleted and returned.
C17_Witness ==
    /\ CallsOf("create_bucket") # <<>>
    /\ CallsOf("put_object") # <<>>
    /\ CallsOf("delete_object") # <<>>
    /\ pc = "done"

(***************************************************************************)
(* C18: whenever the emission of a write operation's document is           *)
(* attempted, the key of the operation is already in the cleanup ledger,   *)
(* whatever the emission's outcome.                                        *)
(***************************************************************************)
C18_KeyInLedgerBeforeEmission ==
    /\ pc = "emit" => object_name \in Range(cleanup_list)
    /\ \A i \in 1..Len(calls) :
           calls[i].op = "index" => calls[i].key \in Range(cleanup_list)

\* C18's case: an emission failed, and run returned with the key on the
\* ledger.
C18_Witness ==
    /\ Failed(CallsOf("index")) # <<>>
    /\ pc = "failed"
    /\ cleanup_list # <<>>

(***************************************************************************)
(* C19: a run whose workload is not write leaves the bucket as it is: it   *)
(* issues no create_bucket, put_object or delete_object, its ledger stays  *)
(* empty, and no step changes the bucket, cleanup requested or not.        *)
(***************************************************************************)
C19_NonWriteLeavesBucketUnchanged ==
    /\ [](args.workload \notin WriteValues =>
            /\ cleanup_list = <<>>
            /\ \A i \in 1..Len(calls) :
                   calls[i].op \notin {"create_bucket", "put_object",
                                       "delete_object"})
    /\ [][args.workload \notin WriteValues => bucket' = bucket]_vars

\* C19's case: a read run with cleanup requested has returned, over a bucket
\* that holds objects.
C19_Witness ==
    /\ args.workload \notin WriteValues
    /\ args.cleanup \in YesValues
    /\ bucket.objects # {}
    /\ pc = "done"


=============================================================================
